---- MODULE Spec2Model ----
(***************************************************************************)
(* Model of bmath/Numerical.py (class root_finding): the six iterative     *)
(* root solvers, the forward-difference derivative and the expanding       *)
(* bracket search.                                                         *)
(*                                                                         *)
(* Numbers are exact rationals <<n, d>> (d > 0, lowest terms): the model   *)
(* follows the arithmetic the code writes down and leaves the rounding of  *)
(* binary floating point out.  A caller-supplied callable is a polynomial  *)
(* of degree <= 2 with rational coefficients, <<c2, c1, c0>>.              *)
(*                                                                         *)
(* Every call is a record in `calls`, keyed by the name of the method; its *)
(* fields are the locals of that method, plus                              *)
(*   i       loop iterations entered so far (the for-loop counter)         *)
(*   evald   the points the callable f was evaluated at, in order           *)
(*   trace   the iterates (c, x, x1, x2) produced, in order                *)
(*   outcome "running", "estimate" (return of a number), "pair" (return of *)
(*           a tuple), "none" (return None) or "fault" (ZeroDivisionError  *)
(*           leaving the method)                                           *)
(***************************************************************************)
EXTENDS Integers, Sequences, FiniteSets, TLC

VARIABLES args, calls

vars == <<args, calls>>

----------------------------------------------------------------------------
(* Bounds of the model *)

MaxIter == 2

MaxOps == 4

----------------------------------------------------------------------------
(* Exact rational arithmetic standing for Python's float operators *)

IAbs(n) == IF n < 0 THEN -n ELSE n

RECURSIVE GCD(_, _)
GCD(m, n) == IF n = 0 THEN m ELSE GCD(n, m % n)

Rat(n, d) ==
    LET g == GCD(IAbs(n), IAbs(d))
        sg == IF d < 0 THEN -1 ELSE 1
    IN  <<(sg * n) \div g, (sg * d) \div g>>

Zero == <<0, 1>>

\* sums and products are formed over the least common denominator and with
\* common factors cancelled first, which keeps the intermediate integers small
RAdd(p, q) ==
    LET g == GCD(p[2], q[2])
    IN  Rat(p[1] * (q[2] \div g) + q[1] * (p[2] \div g), (p[2] \div g) * q[2])

RNeg(p) == <<-p[1], p[2]>>

RSub(p, q) == RAdd(p, RNeg(q))

RMul(p, q) ==
    LET g1 == GCD(IAbs(p[1]), q[2])
        g2 == GCD(IAbs(q[1]), p[2])
    IN  Rat((p[1] \div g1) * (q[1] \div g2), (p[2] \div g2) * (q[2] \div g1))

\* p / q for q # 0; Python raises ZeroDivisionError for q = 0 (see DivRaises)
RDiv(p, q) == RMul(p, Rat(q[2], q[1]))

DivRaises(q) == q[1] = 0

RLt(p, q) ==
    LET g == GCD(p[2], q[2])
    IN  p[1] * (q[2] \div g) < q[1] * (p[2] \div g)

RLe(p, q) ==
    LET g == GCD(p[2], q[2])
    IN  p[1] * (q[2] \div g) <= q[1] * (p[2] \div g)

RAbs(p) == <<IAbs(p[1]), p[2]>>

\* f(x) for the callable f = <<c2, c1, c0>>
Eval(f, x) == RAdd(RMul(f[1], RMul(x, x)), RAdd(RMul(f[2], x), f[3]))

----------------------------------------------------------------------------
(* Inputs *)

Poly(c2, c1, c0) == <<c2, c1, c0>>

I(n) == <<n, 1>>

\* x^2 - 2, the constant 1, x^2 - x, 2x^2 - 4x + 1, x/2, 1 - x, x^2
Funcs ==
    { Poly(I(1), I(0), I(-2)), Poly(I(0), I(0), I(1)), Poly(I(1), I(-1), I(0)),
      Poly(I(2), I(-4), I(1)), Poly(I(0), <<1, 2>>, I(0)), Poly(I(0), I(-1), I(1)),
      Poly(I(1), I(0), I(0)) }

\* fixed-point maps g: x/2, x/2 + 1, 1 - x, the constant 1, x^2 - 2
Maps ==
    { Poly(I(0), <<1, 2>>, I(0)), Poly(I(0), <<1, 2>>, I(1)), Poly(I(0), I(-1), I(1)),
      Poly(I(0), I(0), I(1)), Poly(I(1), I(0), I(-2)) }

\* the derivative handed to newton_raphson and tangent: the true one, or
\* (a caller's mistake) the constant 1
Deriv(f) == Poly(I(0), RMul(I(2), f[1]), f[2])

Derivs(f) == { Deriv(f), Poly(I(0), I(0), I(1)) }

Starts == { I(0), I(1), I(2), I(3) }

\* initial guesses of the open methods
Guesses == { I(0), I(1), I(2) }

Tolerances == { I(0), <<1, 100>>, <<1, 2>> }

Steps == { I(0), I(1), I(-1), <<1, 10>> }

Factors == { I(2), I(1), <<1, 2>> }

Widths == { I(0), <<1, 100>>, I(1), I(-1) }

----------------------------------------------------------------------------
(* Pieces shared by the solvers *)

None == <<>>

\* faulty variant: a loop that runs once more than range(n) allows
InRangeInclusive(i, n) == i <= n

\* `for _ in range(n)`: the body runs while the counter is below n
InRange(i, n) == i < n

\* faulty variant: acceptance with <= in place of <
AcceptOrEqual(v, tolerance) == RLe(RAbs(v), tolerance)

\* `abs(v) < tolerance`
Accept(v, tolerance) == RLt(RAbs(v), tolerance)

\* faulty variant: entry check with > in place of >=
NoBracketStrict(fa, fb) == RLt(Zero, RMul(fa, fb))

\* `func(a) * func(b) >= 0`
NoBracket(fa, fb) == RLe(Zero, RMul(fa, fb))

\* faulty variant: the sign test reversed
SignChangeReversed(fc, fa) == RLt(Zero, RMul(fc, fa))

\* `func(c) * func(a) < 0` and `fc * fb < 0`
SignChange(fc, fa) == RLt(RMul(fc, fa), Zero)

NewCall(locals) ==
    locals @@ [i |-> 0, evald |-> <<>>, evald1 |-> <<>>, trace |-> <<>>,
               outcome |-> "running", result |-> None]

ReturnNone(st) == [st EXCEPT !.outcome = "none", !.result = None]

Raise(st) == [st EXCEPT !.outcome = "fault", !.result = None]

Running(s) == s \in DOMAIN calls /\ calls[s].outcome = "running"

----------------------------------------------------------------------------
(* false_position *)

\* c = (a * func(b) - b * func(a)) / (func(b) - func(a))
FalsePositionPoint(func, a, b) ==
    LET num == RSub(RMul(a, Eval(func, b)), RMul(b, Eval(func, a)))
        den == RSub(Eval(func, b), Eval(func, a))
    IN  IF DivRaises(den) THEN [fault |-> TRUE, x |-> None]
        ELSE [fault |-> FALSE, x |-> RDiv(num, den)]

FalsePositionCheck(st, func) ==
    LET seen == [st EXCEPT !.evald = @ \o <<st.a, st.b>>]
    IN  IF NoBracket(Eval(func, st.a), Eval(func, st.b))
        THEN ReturnNone(seen)
        ELSE [seen EXCEPT !.pc = "loop"]

FalsePositionBody(st, func, tolerance) ==
    LET p == FalsePositionPoint(func, st.a, st.b)
        c == p.x
        s1 == [st EXCEPT !.i = @ + 1, !.evald = @ \o <<st.b, st.a, st.b, st.a>>]
    IN  IF p.fault THEN Raise(s1)
        ELSE IF Accept(Eval(func, c), tolerance)
        THEN [s1 EXCEPT !.evald = @ \o <<c>>, !.trace = @ \o <<c>>,
                        !.outcome = "estimate", !.result = c]
        ELSE IF SignChange(Eval(func, c), Eval(func, st.a))
        THEN [s1 EXCEPT !.evald = @ \o <<c, c, st.a>>, !.trace = @ \o <<c>>, !.b = c]
        ELSE [s1 EXCEPT !.evald = @ \o <<c, c, st.a>>, !.trace = @ \o <<c>>, !.a = c]

FalsePositionPre ==
    /\ Running("false_position")
    /\ calls["false_position"].pc = "start"
    /\ calls' = [calls EXCEPT !["false_position"] = FalsePositionCheck(@, args.f)]
    /\ UNCHANGED args

FalsePositionLoop ==
    /\ Running("false_position")
    /\ calls["false_position"].pc = "loop"
    /\ calls' = [calls EXCEPT !["false_position"] =
                    IF InRange(@.i, args.max_iterations)
                    THEN FalsePositionBody(@, args.f, args.tolerance)
                    ELSE ReturnNone(@)]
    /\ UNCHANGED args

----------------------------------------------------------------------------
(* bisection *)

\* c = (a + b) / 2
Midpoint(a, b) == RDiv(RAdd(a, b), I(2))

BisectionBody(st, func, tolerance) ==
    LET c == Midpoint(st.a, st.b)
        s1 == [st EXCEPT !.i = @ + 1, !.trace = @ \o <<c>>]
    IN  IF Accept(Eval(func, c), tolerance)
        THEN [s1 EXCEPT !.evald = @ \o <<c>>, !.outcome = "estimate", !.result = c]
        ELSE IF SignChange(Eval(func, c), Eval(func, st.a))
        THEN [s1 EXCEPT !.evald = @ \o <<c, c, st.a>>, !.b = c]
        ELSE [s1 EXCEPT !.evald = @ \o <<c, c, st.a>>, !.a = c]

Bisection ==
    /\ Running("bisection")
    /\ calls' = [calls EXCEPT !["bisection"] =
                    IF InRange(@.i, args.max_iterations)
                    THEN BisectionBody(@, args.f, args.tolerance)
                    ELSE ReturnNone(@)]
    /\ UNCHANGED args

----------------------------------------------------------------------------
(* newton_raphson *)

\* faulty variant: a flat derivative is caught and the iterate left where it is
NewtonUpdateGuarded(f, f1, x) ==
    IF DivRaises(Eval(f1, x)) THEN [fault |-> FALSE, x |-> x]
    ELSE [fault |-> FALSE, x |-> RSub(x, RDiv(Eval(f, x), Eval(f1, x)))]

\* x - f(x) / f1(x)
NewtonUpdate(f, f1, x) ==
    IF DivRaises(Eval(f1, x)) THEN [fault |-> TRUE, x |-> None]
    ELSE [fault |-> FALSE, x |-> RSub(x, RDiv(Eval(f, x), Eval(f1, x)))]

NewtonRaphsonBody(st, f, f1, tolerance) ==
    LET u == NewtonUpdate(f, f1, st.x)
        s1 == [st EXCEPT !.i = @ + 1, !.evald = @ \o <<st.x>>, !.evald1 = @ \o <<st.x>>]
    IN  IF u.fault THEN Raise(s1)
        ELSE LET s2 == [s1 EXCEPT !.x = u.x, !.evald = @ \o <<u.x>>, !.trace = @ \o <<u.x>>]
             IN  IF Accept(Eval(f, u.x), tolerance)
                 THEN [s2 EXCEPT !.outcome = "estimate", !.result = u.x]
                 ELSE s2

NewtonRaphson ==
    /\ Running("newton_raphson")
    /\ calls' = [calls EXCEPT !["newton_raphson"] =
                    IF InRange(@.i, args.max_iterations)
                    THEN NewtonRaphsonBody(@, args.f, args.f1, args.tolerance)
                    ELSE ReturnNone(@)]
    /\ UNCHANGED args

----------------------------------------------------------------------------
(* tangent *)

\* faulty variant: the correction added instead of subtracted
TangentUpdatePlus(f, f1, x0) ==
    IF DivRaises(Eval(f1, x0)) THEN [fault |-> TRUE, x |-> None]
    ELSE [fault |-> FALSE, x |-> RAdd(x0, RDiv(Eval(f, x0), Eval(f1, x0)))]

\* x0 - f(x0)/f1(x0)
TangentUpdate(f, f1, x0) ==
    IF DivRaises(Eval(f1, x0)) THEN [fault |-> TRUE, x |-> None]
    ELSE [fault |-> FALSE, x |-> RSub(x0, RDiv(Eval(f, x0), Eval(f1, x0)))]

TangentBody(st, f, f1, tolerance) ==
    LET u == TangentUpdate(f, f1, st.x0)
        x1 == u.x
        s1 == [st EXCEPT !.i = @ + 1, !.evald = @ \o <<st.x0>>, !.evald1 = @ \o <<st.x0>>]
    IN  IF u.fault THEN Raise(s1)
        ELSE LET s2 == [s1 EXCEPT !.evald = @ \o <<x1>>, !.trace = @ \o <<x1>>]
             IN  IF Accept(Eval(f, x1), tolerance)
                 THEN [s2 EXCEPT !.outcome = "estimate", !.result = x1]
                 ELSE [s2 EXCEPT !.x0 = x1]

Tangent ==
    /\ Running("tangent")
    /\ calls' = [calls EXCEPT !["tangent"] =
                    IF InRange(@.i, args.max_iterations)
                    THEN TangentBody(@, args.f, args.f1, args.tolerance)
                    ELSE ReturnNone(@)]
    /\ UNCHANGED args

----------------------------------------------------------------------------
(* secant *)

\* x1 - f(x1) * (x1 - x0) / (f(x1) - f(x0))
SecantUpdate(f, x0, x1) ==
    LET num == RMul(Eval(f, x1), RSub(x1, x0))
        den == RSub(Eval(f, x1), Eval(f, x0))
    IN  IF DivRaises(den) THEN [fault |-> TRUE, x |-> None]
        ELSE [fault |-> FALSE, x |-> RSub(x1, RDiv(num, den))]

SecantBody(st, f, tolerance) ==
    LET u == SecantUpdate(f, st.x0, st.x1)
        x2 == u.x
        s1 == [st EXCEPT !.i = @ + 1, !.evald = @ \o <<st.x1, st.x1, st.x0>>]
    IN  IF u.fault THEN Raise(s1)
        ELSE LET s2 == [s1 EXCEPT !.evald = @ \o <<x2>>, !.trace = @ \o <<x2>>]
             IN  IF Accept(Eval(f, x2), tolerance)
                 THEN [s2 EXCEPT !.outcome = "estimate", !.result = x2]
                 ELSE [s2 EXCEPT !.x0 = st.x1, !.x1 = x2]

Secant ==
    /\ Running("secant")
    /\ calls' = [calls EXCEPT !["secant"] =
                    IF InRange(@.i, args.max_iterations)
                    THEN SecantBody(@, args.f, args.tolerance)
                    ELSE ReturnNone(@)]
    /\ UNCHANGED args

----------------------------------------------------------------------------
(* fixed_point_iteration *)

\* faulty variant: the test made on the value before the update, with one call of func
FixedPointUpdateOld(func, x) ==
    LET nx == Eval(func, x)
    IN  [x |-> nx, diff |-> RSub(x, nx), at |-> <<x>>]

\* x = func(x); abs(x - func(x)): the new x, the tested difference and the
\* points func was called at
FixedPointUpdate(func, x) ==
    LET nx == Eval(func, x)
    IN  [x |-> nx, diff |-> RSub(nx, Eval(func, nx)), at |-> <<x, nx>>]

FixedPointBody(st, func, tolerance) ==
    LET u == FixedPointUpdate(func, st.x)
        s1 == [st EXCEPT !.i = @ + 1, !.x = u.x, !.evald = @ \o u.at,
                         !.trace = @ \o <<u.x>>]
    IN  IF Accept(u.diff, tolerance)
        THEN [s1 EXCEPT !.outcome = "estimate", !.result = u.x]
        ELSE s1

FixedPointIteration ==
    /\ Running("fixed_point_iteration")
    /\ calls' = [calls EXCEPT !["fixed_point_iteration"] =
                    IF InRange(@.i, args.max_iterations)
                    THEN FixedPointBody(@, args.f, args.tolerance)
                    ELSE ReturnNone(@)]
    /\ UNCHANGED args

----------------------------------------------------------------------------
(* num_derivatives *)

\* faulty variant: the backward difference
BackwardDifference(func, x0, h) ==
    IF DivRaises(h) THEN [fault |-> TRUE, x |-> None]
    ELSE [fault |-> FALSE, x |-> RDiv(RSub(Eval(func, x0), Eval(func, RSub(x0, h))), h)]

\* (func(x0 + h) - func(x0)) / h
ForwardDifference(func, x0, h) ==
    IF DivRaises(h) THEN [fault |-> TRUE, x |-> None]
    ELSE [fault |-> FALSE, x |-> RDiv(RSub(Eval(func, RAdd(x0, h)), Eval(func, x0)), h)]

NumDerivativesBody(st, func, x0, h) ==
    LET q == ForwardDifference(func, x0, h)
        s1 == [st EXCEPT !.evald = @ \o <<RAdd(x0, h), x0>>]
    IN  IF q.fault THEN Raise(s1)
        ELSE [s1 EXCEPT !.outcome = "estimate", !.result = q.x]

NumDerivatives ==
    /\ Running("num_derivatives")
    /\ calls' = [calls EXCEPT !["num_derivatives"] =
                    NumDerivativesBody(@, args.f, args.x0, args.h)]
    /\ UNCHANGED args

----------------------------------------------------------------------------
(* bracket_of *)

\* a, fa = x, f(x); b, fb = a + s, f(a + s); if fb > fa: swap and s = -s
BracketOfSetup(st, f, x, s) ==
    LET a == x
        fa == Eval(f, x)
        b == RAdd(a, s)
        fb == Eval(f, RAdd(a, s))
        s1 == [st EXCEPT !.evald = @ \o <<x, RAdd(a, s)>>, !.pc = "loop"]
    IN  IF RLt(fa, fb)
        THEN [s1 EXCEPT !.a = b, !.fa = fb, !.b = a, !.fb = fa, !.s = RNeg(s)]
        ELSE [s1 EXCEPT !.a = a, !.fa = fa, !.b = b, !.fb = fb, !.s = s]

\* faulty variant: the step left as it is
GrowNot(s, k) == s

\* s *= k
Grow(s, k) == RMul(s, k)

\* return (a, c) if a < c else (c, a)
Ordered(a, c) == IF RLt(a, c) THEN <<a, c>> ELSE <<c, a>>

BracketOfBody(st, f, k) ==
    LET c == RAdd(st.b, st.s)
        fc == Eval(f, RAdd(st.b, st.s))
        s1 == [st EXCEPT !.i = @ + 1, !.evald = @ \o <<c>>, !.trace = @ \o <<c>>]
    IN  IF SignChange(fc, st.fb)
        THEN [s1 EXCEPT !.outcome = "pair", !.result = Ordered(st.a, c)]
        ELSE [s1 EXCEPT !.a = st.b, !.fa = st.fb, !.b = c, !.fb = fc,
                        !.s = Grow(st.s, k)]

BracketOfStart ==
    /\ Running("bracket_of")
    /\ calls["bracket_of"].pc = "start"
    /\ calls' = [calls EXCEPT !["bracket_of"] = BracketOfSetup(@, args.f, args.x, args.s)]
    /\ UNCHANGED args

\* the loop; when range(ops) is used up the method ends without a return
\* statement, which in Python returns None
BracketOfLoop ==
    /\ Running("bracket_of")
    /\ calls["bracket_of"].pc = "loop"
    /\ calls' = [calls EXCEPT !["bracket_of"] =
                    IF InRange(@.i, args.ops)
                    THEN BracketOfBody(@, args.f, args.k)
                    ELSE ReturnNone(@)]
    /\ UNCHANGED args

----------------------------------------------------------------------------
(* The calls a client can make: one call of a method, or newton_raphson   *)
(* and tangent called with the same arguments                              *)

InitFalsePosition ==
    \E func \in Funcs, a \in Starts, b \in Starts, tolerance \in Tolerances,
       max_iterations \in 0..MaxIter :
        /\ args = [f |-> func, a |-> a, b |-> b, tolerance |-> tolerance,
                   max_iterations |-> max_iterations]
        /\ calls = [m \in {"false_position"} |-> NewCall([pc |-> "start", a |-> a, b |-> b])]

InitBisection ==
    \E func \in Funcs, a \in Starts, b \in Starts, tolerance \in Tolerances,
       max_iterations \in 0..MaxIter :
        /\ args = [f |-> func, a |-> a, b |-> b, tolerance |-> tolerance,
                   max_iterations |-> max_iterations]
        /\ calls = [m \in {"bisection"} |-> NewCall([a |-> a, b |-> b])]

InitNewtonTangent ==
    \E f \in Funcs, x0 \in Guesses, tolerance \in Tolerances,
       max_iterations \in 0..MaxIter :
        \E f1 \in Derivs(f) :
            /\ args = [f |-> f, f1 |-> f1, x0 |-> x0, tolerance |-> tolerance,
                       max_iterations |-> max_iterations]
            /\ calls = [m \in {"newton_raphson", "tangent"} |->
                          IF m = "newton_raphson" THEN NewCall([x |-> x0])
                          ELSE NewCall([x0 |-> x0])]

InitSecant ==
    \E f \in Funcs, x0 \in Guesses, x1 \in Guesses, tolerance \in Tolerances,
       max_iterations \in 0..MaxIter :
        /\ args = [f |-> f, x0 |-> x0, x1 |-> x1, tolerance |-> tolerance,
                   max_iterations |-> max_iterations]
        /\ calls = [m \in {"secant"} |-> NewCall([x0 |-> x0, x1 |-> x1])]

InitFixedPoint ==
    \E func \in Maps, initial_guess \in Starts, tolerance \in Tolerances,
       max_iterations \in 0..MaxIter :
        /\ args = [f |-> func, x0 |-> initial_guess, tolerance |-> tolerance,
                   max_iterations |-> max_iterations]
        /\ calls = [m \in {"fixed_point_iteration"} |-> NewCall([x |-> initial_guess])]

InitNumDerivatives ==
    \E func \in Funcs, x0 \in Starts, h \in Widths :
        /\ args = [f |-> func, x0 |-> x0, h |-> h]
        /\ calls = [m \in {"num_derivatives"} |-> NewCall([x0 |-> x0])]

InitBracketOf ==
    \E f \in Funcs, x \in Starts, s \in Steps, k \in Factors, ops \in 0..MaxOps :
        /\ args = [f |-> f, x |-> x, s |-> s, k |-> k, ops |-> ops]
        /\ calls = [m \in {"bracket_of"} |->
                      NewCall([pc |-> "start", a |-> x, fa |-> None, b |-> None,
                               fb |-> None, s |-> s])]

Init ==
    \/ InitFalsePosition
    \/ InitBisection
    \/ InitNewtonTangent
    \/ InitSecant
    \/ InitFixedPoint
    \/ InitNumDerivatives
    \/ InitBracketOf

Next ==
    \/ FalsePositionPre
    \/ FalsePositionLoop
    \/ Bisection
    \/ NewtonRaphson
    \/ Tangent
    \/ Secant
    \/ FixedPointIteration
    \/ NumDerivatives
    \/ BracketOfStart
    \/ BracketOfLoop

Spec == Init /\ [][Next]_vars

----------------------------------------------------------------------------
(* Properties *)

Has(m) == m \in DOMAIN calls

Product(f, a, b) == RMul(Eval(f, a), Eval(f, b))

ResidualSolvers == {"false_position", "bisection", "newton_raphson", "tangent", "secant"}

LoopSolvers == ResidualSolvers \cup {"fixed_point_iteration"}

\* C1: a returned estimate e satisfies |f(e)| < tolerance in false_position,
\* bisection, newton_raphson, tangent and secant; the x returned by
\* fixed_point_iteration satisfies |x - g(x)| < tolerance.
C1_EstimateWithinTolerance ==
    \A m \in DOMAIN calls \cap LoopSolvers :
        calls[m].outcome = "estimate" =>
            LET e == calls[m].result
            IN  IF m = "fixed_point_iteration"
                THEN RLt(RAbs(RSub(e, Eval(args.f, e))), args.tolerance)
                ELSE RLt(RAbs(Eval(args.f, e)), args.tolerance)

\* a bisection call that returned its second midpoint, whose residual is not 0
C1_Witness ==
    /\ Has("bisection")
    /\ calls["bisection"].outcome = "estimate"
    /\ calls["bisection"].i = 2
    /\ Eval(args.f, calls["bisection"].result) # Zero

\* C2 as stated: at most max_iterations update steps, and every call that
\* ends without an accepted estimate returns None after exactly
\* max_iterations update attempts.
C2_SentinelAfterExactlyCap ==
    \A m \in DOMAIN calls \cap LoopSolvers :
        /\ calls[m].i <= args.max_iterations
        /\ calls[m].outcome \notin {"running", "estimate"} =>
              /\ calls[m].outcome = "none"
              /\ calls[m].i = args.max_iterations

\* the return of false_position at its entry check
EntryReturn(m) ==
    /\ m = "false_position"
    /\ calls[m].pc = "start"
    /\ RLe(Zero, Product(args.f, args.a, args.b))

\* C2 amended: at most max_iterations update steps; a call in which no
\* division faults returns None only after exactly max_iterations update
\* attempts, except the return of false_position at its entry check, which
\* comes after none; every attempt but a faulting one produces one iterate.
C2_AtMostCapAndSentinelAtCap ==
    \A m \in DOMAIN calls \cap LoopSolvers :
        /\ calls[m].i <= args.max_iterations
        /\ Len(calls[m].trace) =
              IF calls[m].outcome = "fault" THEN calls[m].i - 1 ELSE calls[m].i
        /\ calls[m].outcome = "none" =>
              IF EntryReturn(m) THEN calls[m].i = 0
              ELSE calls[m].i = args.max_iterations

\* bisection on the constant 1, two iterations allowed: the tolerance test can
\* never pass, and the call has ended
C2_Witness ==
    /\ Has("bisection")
    /\ args.f = Poly(I(0), I(0), I(1))
    /\ args.max_iterations = 2
    /\ calls["bisection"].outcome = "none"
    /\ calls["bisection"].i = 2

\* C3 as stated: in bisection and false_position f(a)*f(b) <= 0 holds of the
\* current endpoints throughout the call, for every initial interval with
\* f(a)*f(b) <= 0.
C3_BracketKept ==
    \A m \in DOMAIN calls \cap {"bisection", "false_position"} :
        RLe(Product(args.f, args.a, args.b), Zero) =>
            RLe(Product(args.f, calls[m].a, calls[m].b), Zero)

\* C3 amended: in bisection f(a)*f(b) <= 0 holds of the current endpoints
\* throughout the call for every initial interval with f(a)*f(b) <= 0,
\* f(a) # 0 and tolerance > 0; in false_position it holds throughout the loop
\* for every input.
C3_BracketKeptFromNonzeroEnd ==
    /\ ( /\ Has("bisection")
         /\ RLe(Product(args.f, args.a, args.b), Zero)
         /\ Eval(args.f, args.a) # Zero
         /\ RLt(Zero, args.tolerance) ) =>
            RLe(Product(args.f, calls["bisection"].a, calls["bisection"].b), Zero)
    /\ (Has("false_position") /\ calls["false_position"].pc = "loop") =>
          RLe(Product(args.f, calls["false_position"].a, calls["false_position"].b), Zero)

\* bisection has replaced both endpoints of an interval that met the conditions
C3_Witness ==
    /\ Has("bisection")
    /\ RLt(Product(args.f, args.a, args.b), Zero)
    /\ RLt(Zero, args.tolerance)
    /\ calls["bisection"].a # args.a
    /\ calls["bisection"].b # args.b

\* C4: a pair (low, high) returned by bracket_of for a step s # 0 and a
\* factor k > 0 has low < high and f(low)*f(high) < 0.
C4_ReturnedPairIsBracket ==
    (Has("bracket_of") /\ calls["bracket_of"].outcome = "pair"
        /\ args.s # Zero /\ RLt(Zero, args.k)) =>
        LET low == calls["bracket_of"].result[1]
            high == calls["bracket_of"].result[2]
        IN  RLt(low, high) /\ RLt(Product(args.f, low, high), Zero)

\* C5: when f(a)*f(b) >= 0, false_position returns None at once: no loop
\* iteration is entered, no point c is computed, and f is evaluated at a and
\* at b only.
C5_NoBracketReturnsAtOnce ==
    (Has("false_position") /\ RLe(Zero, Product(args.f, args.a, args.b))) =>
        LET st == calls["false_position"]
        IN  /\ st.i = 0
            /\ st.trace = <<>>
            /\ st.pc = "start"
            /\ \/ st.outcome = "running" /\ st.evald = <<>>
               \/ st.outcome = "none" /\ st.evald = <<args.a, args.b>>

\* false_position has returned None for an interval with f(a) = 0 although
\* iterations were allowed
C5_Witness ==
    /\ Has("false_position")
    /\ Eval(args.f, args.a) = Zero
    /\ args.max_iterations > 0
    /\ calls["false_position"].outcome = "none"

IsPrefix(u, v) == Len(u) <= Len(v) /\ \A j \in 1..Len(u) : u[j] = v[j]

Agree(u, v) == IsPrefix(u, v) \/ IsPrefix(v, u)

\* C6: called with the same arguments, newton_raphson and tangent go through
\* the same iterates and the same evaluations of f and f1, and end with the
\* same outcome, the same value and the same number of iterations.
C6_TangentIsNewtonRaphson ==
    (Has("newton_raphson") /\ Has("tangent")) =>
        LET n == calls["newton_raphson"]
            t == calls["tangent"]
        IN  /\ Agree(n.trace, t.trace)
            /\ Agree(n.evald, t.evald)
            /\ Agree(n.evald1, t.evald1)
            /\ (n.i = t.i /\ n.outcome = "running" /\ t.outcome = "running") => n.x = t.x0
            /\ (n.outcome # "running" /\ t.outcome # "running") =>
                  /\ n.outcome = t.outcome
                  /\ n.result = t.result
                  /\ n.i = t.i
                  /\ n.trace = t.trace
                  /\ n.evald = t.evald
                  /\ n.evald1 = t.evald1

\* both calls have returned an estimate found in their second iteration
C6_Witness ==
    /\ Has("newton_raphson") /\ Has("tangent")
    /\ calls["newton_raphson"].outcome = "estimate"
    /\ calls["tangent"].outcome = "estimate"
    /\ calls["tangent"].i = 2

\* the divisor of the update the call m is about to make is zero
FlatAt(m) ==
    CASE m = "newton_raphson" -> Eval(args.f1, calls[m].x) = Zero
      [] m = "tangent" -> Eval(args.f1, calls[m].x0) = Zero
      [] m = "secant" -> Eval(args.f, calls[m].x1) = Eval(args.f, calls[m].x0)

OpenSolvers == {"newton_raphson", "tangent", "secant"}

\* the iteration of newton_raphson, tangent or secant that meets a zero
\* divisor ends the call in a fault
C7_FlatStepFaults ==
    \A m \in DOMAIN calls \cap OpenSolvers :
        ( /\ calls[m].outcome = "running"
          /\ calls[m].i < args.max_iterations
          /\ FlatAt(m)
          /\ calls'[m] # calls[m] ) => calls'[m].outcome = "fault"

\* a fault comes from a zero divisor and carries no value, and None is
\* returned only with the iteration budget used up
C7_FaultAndSentinelOrigins ==
    \A m \in DOMAIN calls \cap OpenSolvers :
        /\ calls[m].outcome = "fault" => (FlatAt(m) /\ calls[m].result = None)
        /\ calls[m].outcome = "none" => calls[m].i = args.max_iterations
        /\ calls[m].outcome = "estimate" => calls[m].result # None

\* C7: in newton_raphson and tangent with f1(x) = 0 at the current iterate,
\* and in secant with f(x1) = f(x0) at the current pair, the call ends in a
\* division fault, never in None and never in an estimate; these methods
\* return None only when the iteration budget is used up.
C7_FaultsPropagate == [][C7_FlatStepFaults]_vars /\ []C7_FaultAndSentinelOrigins

\* secant has met f(x1) = f(x0) in its second iteration and faulted
C7_Witness ==
    /\ Has("secant")
    /\ calls["secant"].outcome = "fault"
    /\ calls["secant"].i = 2
    /\ FlatAt("secant")

\* C8 as stated: num_derivatives always returns a value, the quotient
\* (f(x0+h) - f(x0)) / h.
C8_AlwaysReturnsQuotient ==
    (Has("num_derivatives") /\ calls["num_derivatives"].outcome # "running") =>
        /\ calls["num_derivatives"].outcome = "estimate"
        /\ RMul(calls["num_derivatives"].result, args.h) =
              RSub(Eval(args.f, RAdd(args.x0, args.h)), Eval(args.f, args.x0))

\* C8 amended: for every step h # 0 num_derivatives returns a value v with
\* v * h = f(x0+h) - f(x0), from one evaluation of f at x0+h and one at x0;
\* for f(x) = x^2, x0 = 2, h = 0.01 the value is within 0.01 of 4; for h = 0
\* the call ends in a division fault.
C8_ReturnsQuotientForNonzeroStep ==
    (Has("num_derivatives") /\ calls["num_derivatives"].outcome # "running") =>
        LET st == calls["num_derivatives"]
        IN  /\ st.evald = <<RAdd(args.x0, args.h), args.x0>>
            /\ IF args.h = Zero THEN st.outcome = "fault"
               ELSE /\ st.outcome = "estimate"
                    /\ RMul(st.result, args.h) =
                          RSub(Eval(args.f, RAdd(args.x0, args.h)), Eval(args.f, args.x0))
            /\ ( /\ args.f = Poly(I(1), I(0), I(0))
                 /\ args.x0 = I(2)
                 /\ args.h = <<1, 100>> ) =>
                    RLe(RAbs(RSub(st.result, I(4))), <<1, 100>>)

\* the derivative of x^2 at 2 with h = 0.01 has been returned
C8_Witness ==
    /\ Has("num_derivatives")
    /\ args.f = Poly(I(1), I(0), I(0))
    /\ args.x0 = I(2)
    /\ args.h = <<1, 100>>
    /\ calls["num_derivatives"].outcome = "estimate"
    /\ calls["num_derivatives"].result = <<401, 100>>

\* C9: in fixed_point_iteration every loop iteration evaluates g twice, at
\* the x it starts from and then at the x it has just produced, and the
\* test is made on the new x; after n iterations g has been evaluated 2n
\* times, 2*max_iterations times when None is returned.
C9_TwoEvaluationsPerIteration ==
    Has("fixed_point_iteration") =>
        LET st == calls["fixed_point_iteration"]
            Before(j) == IF j = 1 THEN args.x0 ELSE st.trace[j - 1]
        IN  /\ Len(st.evald) = 2 * st.i
            /\ Len(st.trace) = st.i
            /\ \A j \in 1..st.i :
                  /\ st.evald[2 * j - 1] = Before(j)
                  /\ st.trace[j] = Eval(args.f, Before(j))
                  /\ st.evald[2 * j] = st.trace[j]
            /\ \A j \in 1..st.i :
                  RLt(RAbs(RSub(st.trace[j], Eval(args.f, st.trace[j]))), args.tolerance)
                     <=> (j = st.i /\ st.outcome = "estimate")
            /\ st.outcome = "estimate" => st.result = st.trace[st.i]
            /\ st.outcome = "none" => Len(st.evald) = 2 * args.max_iterations

\* a call has returned in its second iteration an x that differs from the
\* x the iteration started from
C9_Witness ==
    /\ Has("fixed_point_iteration")
    /\ calls["fixed_point_iteration"].outcome = "estimate"
    /\ calls["fixed_point_iteration"].i = 2
    /\ calls["fixed_point_iteration"].trace[1] # calls["fixed_point_iteration"].trace[2]

RECURSIVE RPow(_, _)
RPow(k, n) == IF n = 0 THEN I(1) ELSE RMul(k, RPow(k, n - 1))

====
